---- MODULE Spec2Model ----
(***************************************************************************)
(* MarkovChainGenerator (chain.py): text normalisation, chain building    *)
(* and text generation.  Strings are sequences of one-character strings,  *)
(* words are non-empty strings without whitespace, a state (key) is a     *)
(* tuple of words and the chain maps keys to lists of successor words.    *)
(***************************************************************************)
EXTENDS Integers, Sequences, FiniteSets, TLC

VARIABLES
    order,            \* self.order
    markov_chain,     \* self.markov_chain: key -> list of successor words
    pc,               \* "idle" | "loop" | "break" | "done" (position of the running call)
    op,               \* the call in progress or just finished
    words,            \* build_chain: words
    io,               \* build_from_file: outcome of open/read ("none" | "ok" | "error")
    exc,              \* "none" | "raised": an exception left the call
    ret,              \* the value the call returned
    length,           \* generate_text: length
    start_words,      \* generate_text: start_words
    key,              \* generate_text: key
    start_key,        \* generate_text: the key logged as the starting point
    generated_words,  \* generate_text: generated_words
    i,                \* generate_text: iterations of the for loop done so far
    iters,            \* generate_text: len(range(length - len(generated_words)))
    text,             \* clean_text: the argument
    cleaned           \* clean_text: the result

vars == <<order, markov_chain, pc, op, words, io, exc, ret, length, start_words,
          key, start_key, generated_words, i, iters, text, cleaned>>

(***************************************************************************)
(* Bounds of the model                                                     *)
(***************************************************************************)
MaxOrder == 2          \* orders 1..MaxOrder
MaxTokens == 4         \* tokens in an ingested text
MaxTransitions == 3    \* successor entries the chain may hold in total
MaxLength == 3         \* requested lengths 1..MaxLength
MaxSeedLen == 2        \* words in a seed list
MaxTextLen == 5        \* characters of a text handed to clean_text directly

(***************************************************************************)
(* Characters and strings                                                  *)
(***************************************************************************)
Chars == {"a", "B", " ", "\n", "@", "."}

\* str.lower()
Lower(c) == IF c = "A" THEN "a" ELSE IF c = "B" THEN "b" ELSE c

\* \s
IsSpace(c) == c \in {" ", "\n", "\t", "\r"}

\* \w
IsWordChar(c) == c \in {"a", "b", "c", "d", "A", "B", "_", "0", "1"}

\* the characters the class [^\w\s.,!?;:\'\"-] does not match
IsKept(c) == IsWordChar(c) \/ IsSpace(c)
             \/ c \in {".", ",", "!", "?", ";", ":", "'", "\"", "-"}

RECURSIVE SkipSpaces(_)
SkipSpaces(s) ==
    IF s = <<>> THEN <<>>
    ELSE IF IsSpace(Head(s)) THEN SkipSpaces(Tail(s)) ELSE s

\* text.lower()
LowerAll(s) == [j \in 1..Len(s) |-> Lower(s[j])]

\* re.sub(r'\s+', ' ', text)
RECURSIVE CollapseSpaces(_)
CollapseSpaces(s) ==
    IF s = <<>> THEN <<>>
    ELSE IF IsSpace(Head(s)) THEN <<" ">> \o CollapseSpaces(SkipSpaces(Tail(s)))
    ELSE <<Head(s)>> \o CollapseSpaces(Tail(s))

\* re.sub(r'[^\w\s.,!?;:\'\"-]', '', text)
RemoveSpecial(s) == SelectSeq(s, IsKept)

RECURSIVE DropTrailingSpaces(_)
DropTrailingSpaces(s) ==
    IF s = <<>> THEN <<>>
    ELSE IF IsSpace(s[Len(s)]) THEN DropTrailingSpaces(SubSeq(s, 1, Len(s) - 1))
    ELSE s

\* str.strip()
Strip(s) == DropTrailingSpaces(SkipSpaces(s))

clean_text(t) == Strip(RemoveSpecial(CollapseSpaces(LowerAll(t))))

RECURSIVE FirstWord(_)
FirstWord(s) ==
    IF s = <<>> \/ IsSpace(Head(s)) THEN <<>>
    ELSE <<Head(s)>> \o FirstWord(Tail(s))

\* str.split(): the maximal runs of non-whitespace characters
RECURSIVE Split(_)
Split(s) ==
    LET r == SkipSpaces(s) IN
    IF r = <<>> THEN <<>>
    ELSE LET w == FirstWord(r) IN <<w>> \o Split(SubSeq(r, Len(w) + 1, Len(r)))

\* " ".join(ws)
RECURSIVE Join(_)
Join(ws) ==
    IF ws = <<>> THEN <<>>
    ELSE IF Len(ws) = 1 THEN ws[1]
    ELSE ws[1] \o <<" ">> \o Join(Tail(ws))

RECURSIVE SeqsUpTo(_, _)
SeqsUpTo(S, n) ==
    IF n = 0 THEN {<<>>}
    ELSE LET shorter == SeqsUpTo(S, n - 1) IN
         shorter \cup {Append(s, x) : s \in {t \in shorter : Len(t) = n - 1}, x \in S}

Range(s) == {s[j] : j \in 1..Len(s)}

(***************************************************************************)
(* Inputs                                                                  *)
(***************************************************************************)
\* pieces of text a corpus is put together from, separated by single spaces
Tokens == {<<"a">>, <<"B">>, <<"@">>, <<"\n">>}

Corpora == {Join(ts) : ts \in SeqsUpTo(Tokens, MaxTokens)}

RawTexts == SeqsUpTo(Chars, MaxTextLen)

SeedWords == {<<"a">>, <<"b">>}

None == [given |-> FALSE, list |-> <<>>]
Some(l) == [given |-> TRUE, list |-> l]

Seeds == {None} \cup {Some(l) : l \in SeqsUpTo(SeedWords, MaxSeedLen)}

NoKey == <<>>
EmptyChain == [k \in {} |-> <<>>]

RetNone == [kind |-> "none"]
RetStr(s) == [kind |-> "str", chars |-> s]
RetDict(d) == [kind |-> "dict", table |-> d]

\* "Error: Markov chain not built yet."
ErrorNotBuilt ==
    <<"E", "r", "r", "o", "r", ":", " ", "M", "a", "r", "k", "o", "v", " ",
      "c", "h", "a", "i", "n", " ", "n", "o", "t", " ", "b", "u", "i", "l", "t",
      " ", "y", "e", "t", ".">>

(***************************************************************************)
(* __init__                                                                *)
(***************************************************************************)
Init ==
    /\ order \in 1..MaxOrder
    /\ markov_chain = EmptyChain
    /\ pc = "idle"
    /\ op = "none"
    /\ words = <<>>
    /\ io = "none"
    /\ exc = "none"
    /\ ret = RetNone
    /\ length = 0
    /\ start_words = None
    /\ key = NoKey
    /\ start_key = NoKey
    /\ generated_words = <<>>
    /\ i = 0
    /\ iters = 0
    /\ text = <<>>
    /\ cleaned = <<>>

genLocals == <<length, start_words, key, start_key, generated_words, i, iters>>
cleanLocals == <<text, cleaned>>

(***************************************************************************)
(* build_chain                                                             *)
(***************************************************************************)
\* total number of successor entries of a chain
RECURSIVE SizeOver(_, _)
SizeOver(chain, keys) ==
    IF keys = {} THEN 0
    ELSE LET k == CHOOSE x \in keys : TRUE IN
         Len(chain[k]) + SizeOver(chain, keys \ {k})

Size(chain) == SizeOver(chain, DOMAIN chain)

\* if key not in self.markov_chain: self.markov_chain[key] = []
SetDefault(chain, k) ==
    IF k \in DOMAIN chain THEN chain ELSE chain @@ (k :> <<>>)

\* AddTransition with the append in an else branch: a new key gets an empty list
AddTransition_ElseAppend(chain, k, next_word) ==
    IF k \in DOMAIN chain
    THEN [chain EXCEPT ![k] = Append(@, next_word)]
    ELSE chain @@ (k :> <<>>)

\* the body of the for loop: the entry for key is created when absent, then
\* next_word is appended to it
AddTransition(chain, k, next_word) ==
    [SetDefault(chain, k) EXCEPT ![k] = Append(@, next_word)]

\* RangeLen with the range one short: the last transition is not recorded
RangeLen_OneShort(ws, k) == IF Len(ws) - k - 1 > 0 THEN Len(ws) - k - 1 ELSE 0

\* len(range(len(words) - self.order))
RangeLen(ws, k) == IF Len(ws) - k > 0 THEN Len(ws) - k ELSE 0

\* the for loop from index j (0-based, as in the source) to the end of the range
RECURSIVE BuildLoop(_, _, _, _)
BuildLoop(chain, ws, k, j) ==
    IF j >= RangeLen(ws, k) THEN chain
    ELSE BuildLoop(AddTransition(chain, SubSeq(ws, j + 1, j + k), ws[j + k + 1]),
                   ws, k, j + 1)

\* len(words) <= self.order
TooShort(ws, k) == Len(ws) <= k

\* build_chain starting from a fresh table on every call
build_chain_Fresh(chain, k, ws) ==
    IF Len(ws) <= k
    THEN [chain |-> chain, ret |-> RetDict(EmptyChain)]
    ELSE LET built == BuildLoop(EmptyChain, ws, k, 0) IN
         [chain |-> built, ret |-> RetDict(built)]

\* words = self.clean_text(text).split()
WordsOf(t) == Split(clean_text(t))

\* the word lists the corpora give
CorpusWords == {WordsOf(t) : t \in Corpora}

\* build_chain from the words on, on a model holding chain: the chain
\* afterwards and the returned value
build_chain(chain, k, ws) ==
    IF TooShort(ws, k)
    THEN [chain |-> chain, ret |-> RetDict(EmptyChain)]
    ELSE LET built == BuildLoop(chain, ws, k, 0) IN
         [chain |-> built, ret |-> RetDict(built)]

BuildChain ==
    /\ pc = "idle"
    /\ \E ws \in CorpusWords :
         LET r == build_chain(markov_chain, order, ws) IN
         /\ Size(r.chain) <= MaxTransitions
         /\ markov_chain' = r.chain
         /\ words' = ws
         /\ ret' = r.ret
    /\ op' = "build_chain"
    /\ pc' = "done"
    /\ io' = "none"
    /\ exc' = "none"
    /\ UNCHANGED <<order, genLocals, cleanLocals>>

(***************************************************************************)
(* build_from_file                                                         *)
(***************************************************************************)
\* open/read raises: the except clause logs the error and returns {}
ReadFails ==
    /\ io' = "error"
    /\ exc' = "none"
    /\ ret' = RetDict(EmptyChain)
    /\ UNCHANGED <<markov_chain, words>>

\* open/read gives the file's text, which goes to build_chain
ReadGives(ws) ==
    LET r == build_chain(markov_chain, order, ws) IN
    /\ Size(r.chain) <= MaxTransitions
    /\ io' = "ok"
    /\ exc' = "none"
    /\ markov_chain' = r.chain
    /\ words' = ws
    /\ ret' = r.ret

\* BuildFromFile without the try/except: the error of open/read leaves the call
BuildFromFile_NoExcept ==
    /\ pc = "idle"
    /\ \/ /\ io' = "error"
          /\ exc' = "raised"
          /\ ret' = RetNone
          /\ UNCHANGED <<markov_chain, words>>
       \/ \E ws \in CorpusWords : ReadGives(ws)
    /\ op' = "build_from_file"
    /\ pc' = "done"
    /\ UNCHANGED <<order, genLocals, cleanLocals>>

BuildFromFile ==
    /\ pc = "idle"
    /\ \/ ReadFails
       \/ \E ws \in CorpusWords : ReadGives(ws)
    /\ op' = "build_from_file"
    /\ pc' = "done"
    /\ UNCHANGED <<order, genLocals, cleanLocals>>

(***************************************************************************)
(* generate_text                                                           *)
(***************************************************************************)
\* ws[-k:]
LastWords(ws, k) == SubSeq(ws, IF Len(ws) > k THEN Len(ws) - k + 1 ELSE 1, Len(ws))

\* not self.markov_chain
ModelNotBuilt == DOMAIN markov_chain = {}

\* start_words and len(start_words) >= self.order
UsableSeed(sw) == sw.given /\ sw.list # <<>> /\ Len(sw.list) >= order

\* the return of the error string
ReturnNotBuilt(len, sw) ==
    /\ length' = len
    /\ start_words' = sw
    /\ ret' = RetStr(ErrorNotBuilt)
    /\ exc' = "none"
    /\ pc' = "done"
    /\ UNCHANGED <<key, start_key, generated_words, i, iters>>

\* random.choice of an empty list raises IndexError, which nothing catches
RaiseIndexError(len, sw) ==
    /\ length' = len
    /\ start_words' = sw
    /\ ret' = RetNone
    /\ exc' = "raised"
    /\ pc' = "done"
    /\ UNCHANGED <<key, start_key, generated_words, i, iters>>

\* the state at the head of the for loop, the range evaluated once
EnterLoop(len, sw, k, gw) ==
    /\ length' = len
    /\ start_words' = sw
    /\ key' = k
    /\ start_key' = k
    /\ generated_words' = gw
    /\ i' = 0
    /\ iters' = IF len - Len(gw) > 0 THEN len - Len(gw) ELSE 0
    /\ ret' = RetNone
    /\ exc' = "none"
    /\ pc' = "loop"

\* key = random.choice(list(self.markov_chain.keys())), then generated_words
RandomStart(len, sw, keepSeed) ==
    IF DOMAIN markov_chain = {} THEN RaiseIndexError(len, sw)
    ELSE \E k \in DOMAIN markov_chain :
            EnterLoop(len, sw, k, IF keepSeed THEN sw.list ELSE k)

\* "Choose starting point"
ChooseStart(len, sw) ==
    IF UsableSeed(sw)
    THEN IF LastWords(sw.list, order) \notin DOMAIN markov_chain
         THEN RandomStart(len, sw, TRUE)
         ELSE EnterLoop(len, sw, LastWords(sw.list, order), sw.list)
    ELSE RandomStart(len, sw, FALSE)

\* GenerateCall without the check for an empty chain
GenerateCall_NoCheck ==
    /\ pc = "idle"
    /\ \E len \in 1..MaxLength, sw \in Seeds : ChooseStart(len, sw)
    /\ op' = "generate_text"
    /\ UNCHANGED <<order, markov_chain, words, io, cleanLocals>>

GenerateCall ==
    /\ pc = "idle"
    /\ \E len \in 1..MaxLength, sw \in Seeds :
         IF ModelNotBuilt THEN ReturnNotBuilt(len, sw) ELSE ChooseStart(len, sw)
    /\ op' = "generate_text"
    /\ UNCHANGED <<order, markov_chain, words, io, cleanLocals>>

\* one iteration of the for loop, the chain being chainAfterMiss after the
\* lookup of a key that has no successors
LoopIteration(chainAfterMiss) ==
    /\ pc = "loop"
    /\ i < iters
    /\ IF key \in DOMAIN markov_chain /\ markov_chain[key] # <<>>
       THEN \E j \in 1..Len(markov_chain[key]) :
               /\ generated_words' = Append(generated_words, markov_chain[key][j])
               /\ key' = LastWords(generated_words', order)
               /\ i' = i + 1
               /\ pc' = "loop"
               /\ markov_chain' = markov_chain
       ELSE /\ pc' = "break"
            /\ markov_chain' = chainAfterMiss
            /\ UNCHANGED <<generated_words, key, i>>
    /\ UNCHANGED <<order, op, words, io, exc, ret, length,
                   start_words, start_key, iters, cleanLocals>>

\* GenerateStep on a chain whose lookup creates the missing entry (a defaultdict)
GenerateStep_Inserting == LoopIteration(SetDefault(markov_chain, key))

\* one iteration of the for loop: the lookup reads the chain and leaves it alone
GenerateStep == LoopIteration(markov_chain)

\* return " ".join(generated_words)
GenerateReturn ==
    /\ \/ pc = "loop" /\ i >= iters
       \/ pc = "break"
    /\ ret' = RetStr(Join(generated_words))
    /\ pc' = "done"
    /\ UNCHANGED <<order, markov_chain, op, words, io, exc, genLocals, cleanLocals>>

\* the caller has the returned value; the call's locals are gone
Return ==
    /\ pc = "done"
    /\ pc' = "idle"
    /\ op' = "none"
    /\ words' = <<>>
    /\ io' = "none"
    /\ exc' = "none"
    /\ ret' = RetNone
    /\ length' = 0
    /\ start_words' = None
    /\ key' = NoKey
    /\ start_key' = NoKey
    /\ generated_words' = <<>>
    /\ i' = 0
    /\ iters' = 0
    /\ UNCHANGED <<order, markov_chain, cleanLocals>>

Next ==
    \/ BuildChain
    \/ BuildFromFile
    \/ GenerateCall
    \/ GenerateStep
    \/ GenerateReturn
    \/ Return

Spec == Init /\ [][Next]_vars

(***************************************************************************)
(* clean_text on its own: a text, cleaned once, then cleaned again         *)
(***************************************************************************)
InitClean ==
    /\ order = 1
    /\ markov_chain = EmptyChain
    /\ pc = "text"
    /\ op = "clean_text"
    /\ words = <<>>
    /\ io = "none"
    /\ exc = "none"
    /\ ret = RetNone
    /\ length = 0
    /\ start_words = None
    /\ key = NoKey
    /\ start_key = NoKey
    /\ generated_words = <<>>
    /\ i = 0
    /\ iters = 0
    /\ text \in RawTexts
    /\ cleaned = <<>>

CleanText ==
    /\ pc = "text"
    /\ cleaned' = clean_text(text)
    /\ pc' = "cleaned"
    /\ UNCHANGED <<order, markov_chain, op, words, io, exc, ret, genLocals, text>>

CleanAgain ==
    /\ pc = "cleaned"
    /\ text' = cleaned
    /\ cleaned' = clean_text(cleaned)
    /\ pc' = "recleaned"
    /\ UNCHANGED <<order, markov_chain, op, words, io, exc, ret, genLocals>>

NextClean ==
    \/ CleanText
    \/ CleanAgain

SpecClean == InitClean /\ [][NextClean]_vars

(***************************************************************************)
(* Properties                                                              *)
(***************************************************************************)
IsPrefix(s, t) == Len(s) <= Len(t) /\ SubSeq(t, 1, Len(s)) = s

Builds == {"build_chain", "build_from_file"}

\* the words of the returned string
Output == Split(ret.chars)

GenerateDone == op = "generate_text" /\ pc = "done"

\* the seed is long enough and its last order words are no key of the chain
SeedNotFound ==
    /\ UsableSeed(start_words)
    /\ LastWords(start_words.list, order) \notin DOMAIN markov_chain

\* C1: the output of generate_text on a non-empty chain has at most length words
C1_OutputWithinLength ==
    (GenerateDone /\ ~ModelNotBuilt) => Len(Output) <= length

\* C2: when the seed's last order words are no key, the output starts with the
\* words of the chosen state and not with the supplied seed
C2_FallbackDiscardsSeed ==
    (GenerateDone /\ ~ModelNotBuilt /\ SeedNotFound) =>
        /\ start_key \in DOMAIN markov_chain
        /\ IsPrefix(start_key, Output)
        /\ ~IsPrefix(start_words.list, Output)

\* C3: cleaning a cleaned text gives the same text
C3_CleanIdempotent ==
    pc = "recleaned" => cleaned = text

\* the 1-based positions of W at which state S is followed by a word
PositionsOf(W, k, S) == {p \in 1..(Len(W) - k) : SubSeq(W, p, p + k - 1) = S}

\* the followers of S in W at the positions up to p, in increasing order
RECURSIVE FollowersUpTo(_, _, _, _)
FollowersUpTo(W, k, S, p) ==
    IF p = 0 THEN <<>>
    ELSE IF p \in PositionsOf(W, k, S)
         THEN Append(FollowersUpTo(W, k, S, p - 1), W[p + k])
         ELSE FollowersUpTo(W, k, S, p - 1)

Occurrences(l, w) == Cardinality({j \in 1..Len(l) : l[j] = w})

\* C4: build_chain on a new model with more than order words records, for
\* every state S and word w, as many occurrences of w under S as there are
\* positions where S is followed by w, in the order of the positions, and
\* no other key
C4_BuildRecordsEveryTransition ==
    [][(pc = "idle" /\ op' = "build_chain" /\ DOMAIN markov_chain = {}
          /\ Len(words') > order) =>
        LET W == words'
            T == markov_chain'
        IN /\ DOMAIN T = {SubSeq(W, p, p + order - 1) : p \in 1..(Len(W) - order)}
           /\ \A S \in DOMAIN T :
                /\ T[S] = FollowersUpTo(W, order, S, Len(W) - order)
                /\ \A w \in Range(W) :
                     Occurrences(T[S], w) =
                       Cardinality({p \in PositionsOf(W, order, S) : W[p + order] = w})
      ]_vars

\* "a b c a b d"
SampleText == <<"a", " ", "b", " ", "c", " ", "a", " ", "b", " ", "d">>

\* (a,b) -> [c,d], (b,c) -> [a], (c,a) -> [b]
SampleChain ==
    (<< <<"a">>, <<"b">> >> :> << <<"c">>, <<"d">> >>)
    @@ (<< <<"b">>, <<"c">> >> :> << <<"a">> >>)
    @@ (<< <<"c">>, <<"a">> >> :> << <<"b">> >>)

C4_Witness ==
    /\ op = "build_chain" /\ pc = "done" /\ order = 1
    /\ words = << <<"a">>, <<"b">>, <<"b">>, <<"a">> >>
    /\ Size(markov_chain) = Len(words) - order
    /\ markov_chain = (<< <<"a">> >> :> << <<"b">> >>)
                      @@ (<< <<"b">> >> :> << <<"b">>, <<"a">> >>)
    /\ build_chain(EmptyChain, 2, WordsOf(SampleText)).chain = SampleChain

\* C5: a build_chain call on a text of at most order words, and a
\* build_from_file call whose read fails, leave the chain as it was and raise
\* nothing
C5_NoTransitionNoChange ==
    [][(pc = "idle" /\ op' \in Builds /\ (io' = "error" \/ Len(words') <= order)) =>
        (markov_chain' = markov_chain /\ exc' = "none")
      ]_vars

C5_Witness ==
    /\ op = "build_from_file" /\ pc = "done" /\ io = "error" /\ exc = "none"
    /\ DOMAIN markov_chain # {}

\* C6: every key of the chain has at least one successor
C6_NoEmptySuccessorList ==
    \A k \in DOMAIN markov_chain : Len(markov_chain[k]) >= 1

C6_Witness ==
    /\ op = "build_chain" /\ pc = "done" /\ Len(words) <= order
    /\ Cardinality(DOMAIN markov_chain) >= 2

\* C7: the chain is empty at construction, and every build call keeps every
\* key, the successor list before the call being a prefix of the one after
C7_ChainOnlyGrows ==
    /\ DOMAIN markov_chain = {}
    /\ [][(pc = "idle" /\ op' \in Builds) =>
            \A k \in DOMAIN markov_chain :
                /\ k \in DOMAIN markov_chain'
                /\ IsPrefix(markov_chain[k], markov_chain'[k])
         ]_vars

C7_Witness ==
    /\ op = "build_chain" /\ pc = "done" /\ Len(words) = order + 1
    /\ \E k \in DOMAIN markov_chain :
         /\ Len(markov_chain[k]) >= 2
         /\ k = SubSeq(words, 1, order)

\* C8: generate_text on an empty chain returns the error string, without a
\* start state, without a sampled word and without raising
C8_EmptyChainGivesError ==
    (op = "generate_text" /\ ModelNotBuilt) =>
        /\ pc = "done"
        /\ ret = RetStr(ErrorNotBuilt)
        /\ exc = "none"
        /\ key = NoKey /\ start_key = NoKey
        /\ generated_words = <<>> /\ i = 0

C8_Witness ==
    /\ GenerateDone /\ ModelNotBuilt
    /\ UsableSeed(start_words)
    /\ ret = RetStr(ErrorNotBuilt)

\* C9: no step of generate_text changes the chain or the order
C9_GenerateReadsOnly ==
    [][op' = "generate_text" => (markov_chain' = markov_chain /\ order' = order)]_vars

C9_Witness ==
    /\ GenerateDone /\ ~ModelNotBuilt
    /\ i < iters
    /\ key \notin DOMAIN markov_chain

\* C10: every word of the output after the seeding words is a recorded
\* successor of the order words before it
C10_AppendedAreSuccessors ==
    (GenerateDone /\ ~ModelNotBuilt) =>
        \A j \in (Len(Output) - i + 1)..Len(Output) :
            LET st == SubSeq(Output, j - order, j - 1) IN
            /\ st \in DOMAIN markov_chain
            /\ Output[j] \in Range(markov_chain[st])

====
